---- MODULE Spec2Model ----
(***************************************************************************)
(* A model of the tabular MDP solvers (mini_rl_lib/policies.py), of the    *)
(* model callbacks the random MDP factory installs                         *)
(* (mini_rl_lib/random_mdp_factory.py) and of the trajectory recorder      *)
(* (data.py: create).                                                      *)
(*                                                                         *)
(* Arithmetic.  The program computes in floating point.  Here every real   *)
(* is a fixed-point number: a value V(s) is an integer count of 1/VScale,  *)
(* a transition probability an integer count of 1/PUnits, a reward         *)
(* probability an integer count of 1/RUnits, and gamma is the fraction     *)
(* GammaNum/GammaDen.  _update_value accumulates its sum exactly over the  *)
(* common denominator and rounds once, to the nearest value unit, when it  *)
(* returns: that single rounding stands for the float round-off.           *)
(***************************************************************************)
EXTENDS Integers, Sequences, FiniteSets, TLC

\* ------------------------------------------------------------- bounds
NStates == 3
NActions == 2
NRewards == 3
MaxSeed == 8
PUnits == 2
RUnits == 2
VScale == 4
GammaNum == 1
GammaDen == 2
Eps == 1
MaxStep == 3
MaxReplay == 2
MaxSweeps == 12
PlayUnits == 2
MaxRecorded == 6

States == 0 .. (NStates - 1)
Actions == 0 .. (NActions - 1)
RewardIdx == 0 .. (NRewards - 1)

None == "None"

MDPTransitionType ==
    {"S_DETERMINISTIC", "S_PROBABILISTIC", "SA_DETERMINISTIC", "SA_PROBABILISTIC", "SAS"}

MDPRewardType == {"S", "SA", "SAS", "SASR"}

\* np.arange(-n_rewards + 2, 2, 1): the reward values -n_rewards+2 .. 1
all_rewards == [i \in RewardIdx |-> i - NRewards + 2]

\* ------------------------------------------------------------ helpers
RECURSIVE SumUpTo(_, _)
\* f[0] + ... + f[k-1]
SumUpTo(f, k) == IF k = 0 THEN 0 ELSE SumUpTo(f, k - 1) + f[k - 1]

Abs(x) == IF x < 0 THEN -x ELSE x

PySecond(x, y) == y

\* max(x, y) of two numbers
PyMax(x, y) == IF y > x THEN y ELSE x

ArrLen(arr) == Cardinality(DOMAIN arr)

Zeros(n) == [i \in 0 .. (n - 1) |-> 0]

RECURSIVE NpMaxScan(_, _)
\* the running maximum of values[0 .. k-1], k >= 1
NpMaxScan(values, k) ==
    IF k = 1 THEN values[0]
    ELSE LET m == NpMaxScan(values, k - 1)
         IN  IF values[k - 1] > m THEN values[k - 1] ELSE m

NpMax(values) == NpMaxScan(values, ArrLen(values))

RECURSIVE NpArgmaxScanLast(_, _)
\* the index of the last occurrence of the maximum of values[0 .. k-1]
NpArgmaxScanLast(values, k) ==
    IF k = 1 THEN 0
    ELSE LET b == NpArgmaxScanLast(values, k - 1)
         IN  IF values[k - 1] >= values[b] THEN k - 1 ELSE b

NpArgmaxLast(values) == NpArgmaxScanLast(values, ArrLen(values))

RECURSIVE NpArgmaxScan(_, _)
\* the index of the first occurrence of the maximum of values[0 .. k-1]
NpArgmaxScan(values, k) ==
    IF k = 1 THEN 0
    ELSE LET b == NpArgmaxScan(values, k - 1)
         IN  IF values[k - 1] > values[b] THEN k - 1 ELSE b

NpArgmax(values) == NpArgmaxScan(values, ArrLen(values))

\* ------------------------------------------- random instance synthesis
\* The generators of utils.py draw every table cell at random; a draw is
\* the cell of a pseudo-random stream picked by the instance's seed.
Cell(seed, i, m) ==
    (((seed + 3) * (i + 7) * (seed + i + 11)) % 251) % m

\* row `row` of a probabilistic table over `m` outcomes, in `units` equal
\* shares: the normalised random vector
Row(seed, row, m, units) ==
    [j \in 0 .. (m - 1) |->
        Cardinality({u \in 0 .. (units - 1) : Cell(seed, 7 + row * units + u, m) = j})]

\* the state reset draws: the same at every reset with the same seed
reset(seed) == Cell(seed, 97, NStates)

terminate_s(seed) == [s \in States |-> Cell(seed, 31 + s, 3) = 0]

transition(kind, seed) ==
    CASE kind = "S_DETERMINISTIC" -> [s \in States |-> Cell(seed, s, NStates)]
      [] kind = "S_PROBABILISTIC" -> [s \in States |-> Row(seed, s, NStates, PUnits)]
      [] kind = "SA_DETERMINISTIC" ->
            [sa \in States \X Actions |-> Cell(seed, sa[1] * NActions + sa[2], NStates)]
      [] kind = "SA_PROBABILISTIC" ->
            [sa \in States \X Actions |-> Row(seed, sa[1] * NActions + sa[2], NStates, PUnits)]
      [] kind = "SAS" ->
            [x \in States \X Actions \X States |->
                Row(seed, x[1] * NActions + x[2], NStates, PUnits)[x[3]]]

reward(kind, seed) ==
    CASE kind = "S" -> [s \in States |-> all_rewards[Cell(seed, 53 + s, NRewards)]]
      [] kind = "SA" ->
            [sa \in States \X Actions |->
                all_rewards[Cell(seed, 53 + sa[1] * NActions + sa[2], NRewards)]]
      [] kind = "SAS" ->
            [x \in States \X Actions \X States |->
                all_rewards[Cell(seed, 53 + (x[1] * NActions + x[2]) * NStates + x[3], NRewards)]]
      [] kind = "SASR" ->
            [x \in States \X Actions \X States \X RewardIdx |->
                Row(seed, 53 + (x[1] * NActions + x[2]) * NStates + x[3], NRewards, RUnits)[x[4]]]

VARIABLES
    \* the MDP instance (MDPFactory.__init__)
    transition_function_type, reward_function_type,
    transitions, rewards, terminate_s_flags,
    \* the ValueIteration object and the frame of its fit
    vi_values, vi_policy, vi_pc, vi_s, vi_delta, vi_v, vi_qvalues, vi_init,
    \* history of the running fit: the value array when the current sweep
    \* began, the states it has updated, the delta of every finished sweep
    vi_start, vi_visited, vi_deltas,
    \* the PolicyIteration object and the frames of its fit,
    \* _policy_improvement and _policy_evaluation
    pi_values, pi_policy, pi_pc, pi_s, pi_delta, pi_policy_stable, pi_stable,
    pi_improvement_ret, pi_init,
    \* the model's current state and the state reset(seed) puts it in
    current_state, seeded_state,
    \* create: its parameters, its position, its locals and the metadata
    n_replay, max_step, random_play_p,
    c_pc, state, action, player, t, range_next, replay, step_result, target_return,
    states, actions, ep_rewards, times, data, data_min_step, data_max_step, metadata,
    \* history: the terminated-or-truncated flag of every step of the episode
    \* being played, and of every episode in data
    stops, data_stops

mdp_vars == <<transition_function_type, reward_function_type, transitions, rewards,
              terminate_s_flags>>
vi_vars == <<vi_values, vi_policy, vi_pc, vi_s, vi_delta, vi_v, vi_qvalues, vi_init,
             vi_start, vi_visited, vi_deltas>>
pi_vars == <<pi_values, pi_policy, pi_pc, pi_s, pi_delta, pi_policy_stable, pi_stable,
             pi_improvement_ret, pi_init>>
env_vars == <<current_state, seeded_state>>
param_vars == <<n_replay, max_step, random_play_p>>
episode_vars == <<states, actions, ep_rewards, times, stops>>
create_vars == <<param_vars, c_pc, state, action, player, t, range_next, replay, step_result,
                 target_return, episode_vars, data, data_stops, data_min_step, data_max_step,
                 metadata>>
vars == <<mdp_vars, vi_vars, pi_vars, env_vars, create_vars>>

\* ---------------------------------------------- the model's callbacks
transition_function(s, a, next_s) ==
    CASE transition_function_type = "S_DETERMINISTIC" -> transitions[s]
      [] transition_function_type = "S_PROBABILISTIC" -> transitions[s]
      [] transition_function_type = "SA_DETERMINISTIC" -> transitions[<<s, a>>]
      [] transition_function_type = "SA_PROBABILISTIC" -> transitions[<<s, a>>]
      [] transition_function_type = "SAS" -> transitions[<<s, a, next_s>>]

RewardIndex(r) == CHOOSE i \in RewardIdx : all_rewards[i] = r

reward_function(s, a, next_s, r) ==
    CASE reward_function_type = "S" -> rewards[s]
      [] reward_function_type = "SA" -> rewards[<<s, a>>]
      [] reward_function_type = "SAS" -> rewards[<<s, a, s>>]
      [] reward_function_type = "SASR" -> rewards[<<s, a, next_s, RewardIndex(r)>>]

\* ------------------------------------------------------ _update_value
\* r + gamma * V, in value units times GammaDen
Discounted(values, r, next_s) == r * VScale * GammaDen + GammaNum * values[next_s]

\* get_value: in value units times RUnits * GammaDen
get_value(values, s, a, next_s) ==
    IF reward_function_type # "SASR"
    THEN RUnits * Discounted(values, reward_function(s, a, next_s, None), next_s)
    ELSE SumUpTo([i \in RewardIdx |->
                    reward_function(s, a, next_s, all_rewards[i])
                        * Discounted(values, all_rewards[i], next_s)], NRewards)

QDen == PUnits * RUnits * GammaDen

\* the float result on the value grid: the nearest value unit
RoundToGrid(x) == (2 * x + QDen) \div (2 * QDen)

update_value(values, s, a) ==
    RoundToGrid(
        IF transition_function_type \in {"S_DETERMINISTIC", "SA_DETERMINISTIC"}
        THEN PUnits * get_value(values, s, a, transition_function(s, a, None))
        ELSE IF transition_function_type \in {"S_PROBABILISTIC", "SA_PROBABILISTIC"}
        THEN LET next_s_probs == transition_function(s, a, None)
             IN  SumUpTo([next_s \in DOMAIN next_s_probs |->
                            next_s_probs[next_s] * get_value(values, s, a, next_s)],
                         ArrLen(next_s_probs))
        ELSE SumUpTo([next_s \in States |->
                        transition_function(s, a, next_s) * get_value(values, s, a, next_s)],
                     NStates))

\* ------------------------------------------ DeterministicMDPPolicy.init
\* an argument left at its default None: no array
NoArray == <<>>

NoCall == [values |-> NoArray, policy |-> NoArray, raised |-> FALSE,
           values_kept |-> TRUE, policy_kept |-> TRUE]

\* line 35
ValuesAccepted(values) == ArrLen(values) = NStates

PolicyLengthAccepted(policy) == ArrLen(policy) = NStates

\* lines 38-39
PolicyAccepted(policy) ==
    /\ ArrLen(policy) = NStates
    /\ \A i \in DOMAIN policy : policy[i] >= 0 /\ policy[i] < NActions

\* what init(values, policy) leaves in self._values and self._policy, and
\* whether one of its assertions failed; an assertion failure leaves the
\* assignments that follow it undone
InitCall(self_values, self_policy, values, policy) ==
    LET values_ok == values = NoArray \/ ValuesAccepted(values)
        policy_ok == policy = NoArray \/ PolicyAccepted(policy)
        new_values == IF values # NoArray /\ values_ok THEN values ELSE self_values
        new_policy == IF values_ok /\ policy # NoArray /\ policy_ok THEN policy ELSE self_policy
    IN  [self_values |-> new_values,
         self_policy |-> new_policy,
         log |-> [values |-> values, policy |-> policy,
                  raised |-> ~(values_ok /\ policy_ok),
                  values_kept |-> new_values = self_values,
                  policy_kept |-> new_policy = self_policy]]

\* the arrays a caller hands to init: right and wrong lengths, entries in
\* and out of range
ArrayLengths == {NStates - 1, NStates, NStates + 1}

ValuesArgs ==
    {NoArray} \cup {[i \in 0 .. (n - 1) |-> c] : n \in ArrayLengths, c \in {0, VScale}}

PolicyArgs ==
    {NoArray}
    \cup {[i \in 0 .. (n - 1) |-> c] : n \in ArrayLengths, c \in -1 .. NActions}
    \cup {[i \in 0 .. (n - 1) |-> i % NActions] : n \in ArrayLengths}
    \cup {[i \in 0 .. (n - 1) |-> IF i = n - 1 THEN NActions ELSE 0] : n \in ArrayLengths}

\* init is called on a fresh object, before its fit
VIInit ==
    /\ vi_pc = "idle"
    /\ vi_init = NoCall
    /\ \E values \in ValuesArgs, policy \in PolicyArgs :
        LET r == InitCall(vi_values, vi_policy, values, policy)
        IN  /\ vi_values' = r.self_values
            /\ vi_policy' = r.self_policy
            /\ vi_init' = r.log
    /\ UNCHANGED <<mdp_vars, env_vars, create_vars, pi_vars, vi_pc, vi_s, vi_delta, vi_v, vi_qvalues,
                   vi_start, vi_visited, vi_deltas>>

PIInit ==
    /\ vi_pc = "done"
    /\ pi_pc = "idle"
    /\ pi_init = NoCall
    /\ \E values \in ValuesArgs, policy \in PolicyArgs :
        LET r == InitCall(pi_values, pi_policy, values, policy)
        IN  /\ pi_values' = r.self_values
            /\ pi_policy' = r.self_policy
            /\ pi_init' = r.log
    /\ UNCHANGED <<mdp_vars, env_vars, create_vars, vi_vars, pi_pc, pi_s, pi_delta, pi_policy_stable, pi_stable,
                   pi_improvement_ret>>

\* --------------------------------------------------- ValueIteration.fit
VIFitEnter ==
    /\ vi_pc = "idle"
    /\ vi_delta' = Eps + 1
    /\ vi_pc' = "while"
    /\ vi_init' = NoCall
    /\ UNCHANGED <<mdp_vars, env_vars, create_vars, pi_vars, vi_values, vi_policy, vi_s, vi_v, vi_qvalues,
                   vi_start, vi_visited, vi_deltas>>

\* while delta > self.eps: delta = 0, and the for loop starts
VIWhile ==
    /\ vi_pc = "while"
    /\ IF vi_delta > Eps
       THEN /\ Len(vi_deltas) < MaxSweeps
            /\ vi_delta' = 0
            /\ vi_s' = 0
            /\ vi_pc' = "for"
            /\ vi_start' = vi_values
            /\ vi_visited' = <<>>
       ELSE /\ vi_pc' = "done"
            /\ UNCHANGED <<vi_delta, vi_s, vi_start, vi_visited>>
    /\ UNCHANGED <<mdp_vars, env_vars, create_vars, pi_vars, vi_values, vi_policy, vi_v, vi_qvalues, vi_init, vi_deltas>>

\* lines 94-98: v = self._values[s] and the loop over the actions
VIEvaluate ==
    /\ vi_pc = "for"
    /\ vi_s < NStates
    /\ vi_v' = vi_values[vi_s]
    /\ vi_qvalues' = [a \in Actions |-> update_value(vi_values, vi_s, a)]
    /\ vi_pc' = "update"
    /\ UNCHANGED <<mdp_vars, env_vars, create_vars, pi_vars, vi_values, vi_policy, vi_s, vi_delta, vi_init,
                   vi_start, vi_visited, vi_deltas>>

\* lines 99-101
VIUpdate ==
    /\ vi_pc = "update"
    /\ vi_values' = [vi_values EXCEPT ![vi_s] = NpMax(vi_qvalues)]
    /\ vi_policy' = [vi_policy EXCEPT ![vi_s] = NpArgmax(vi_qvalues)]
    /\ vi_delta' = PyMax(vi_delta, Abs(vi_v - vi_values'[vi_s]))
    /\ vi_visited' = Append(vi_visited, vi_s)
    /\ vi_s' = vi_s + 1
    /\ vi_pc' = "for"
    /\ UNCHANGED <<mdp_vars, env_vars, create_vars, pi_vars, vi_v, vi_qvalues, vi_init, vi_start, vi_deltas>>

\* the for loop is exhausted: back to the while test
VISweepEnd ==
    /\ vi_pc = "for"
    /\ vi_s = NStates
    /\ vi_deltas' = Append(vi_deltas, vi_delta)
    /\ vi_pc' = "while"
    /\ UNCHANGED <<mdp_vars, env_vars, create_vars, pi_vars, vi_values, vi_policy, vi_s, vi_delta, vi_v, vi_qvalues,
                   vi_init, vi_start, vi_visited>>

\* ------------------------------------------------- PolicyIteration
_update_policy(values, s) == NpArgmax([a \in Actions |-> update_value(values, s, a)])

\* Python's `not x` for the values fit's policy_stable takes
PyNot(x) == x \in {"False", None}

PIFitEnter ==
    /\ vi_pc = "done"
    /\ pi_pc = "idle"
    /\ pi_policy_stable' = "False"
    /\ pi_pc' = "while"
    /\ pi_init' = NoCall
    /\ UNCHANGED <<mdp_vars, env_vars, create_vars, vi_vars, pi_values, pi_policy, pi_s, pi_delta, pi_stable,
                   pi_improvement_ret>>

\* line 146: while not policy_stable; line 147 calls _policy_improvement,
\* whose frame opens with policy_stable = True
PIWhile ==
    /\ pi_pc = "while"
    /\ IF PyNot(pi_policy_stable)
       THEN /\ pi_stable' = TRUE
            /\ pi_s' = 0
            /\ pi_pc' = "improvement"
       ELSE /\ pi_pc' = "done"
            /\ UNCHANGED <<pi_stable, pi_s>>
    /\ UNCHANGED <<mdp_vars, env_vars, create_vars, vi_vars, pi_values, pi_policy, pi_delta, pi_policy_stable,
                   pi_improvement_ret, pi_init>>

\* lines 136-140, one state of _policy_improvement's loop
PIImprove ==
    /\ pi_pc = "improvement"
    /\ pi_s < NStates
    /\ LET a == pi_policy[pi_s]
       IN  /\ pi_policy' = [pi_policy EXCEPT ![pi_s] = _update_policy(pi_values, pi_s)]
           /\ pi_stable' = IF pi_policy'[pi_s] # a THEN FALSE ELSE pi_stable
    /\ pi_s' = pi_s + 1
    /\ UNCHANGED <<mdp_vars, env_vars, create_vars, vi_vars, pi_values, pi_pc, pi_delta, pi_policy_stable,
                   pi_improvement_ret, pi_init>>

\* line 141 returns policy_stable, which line 147 drops; line 148 calls
\* _policy_evaluation, whose frame opens with delta = self.eps + 1
PIImprovementReturn ==
    /\ pi_pc = "improvement"
    /\ pi_s = NStates
    /\ pi_improvement_ret' = IF pi_stable THEN "True" ELSE "False"
    /\ pi_delta' = Eps + 1
    /\ pi_pc' = "evaluation"
    /\ UNCHANGED <<mdp_vars, env_vars, create_vars, vi_vars, pi_values, pi_policy, pi_s, pi_policy_stable,
                   pi_stable, pi_init>>

\* line 125: while delta > self.eps; falling out of the loop the function
\* ends without a return statement, and line 148 stores its None
PIEvaluationWhile ==
    /\ pi_pc = "evaluation"
    /\ IF pi_delta > Eps
       THEN /\ pi_delta' = 0
            /\ pi_s' = 0
            /\ pi_pc' = "evaluation_for"
            /\ UNCHANGED pi_policy_stable
       ELSE /\ pi_policy_stable' = None
            /\ pi_pc' = "while"
            /\ UNCHANGED <<pi_delta, pi_s>>
    /\ UNCHANGED <<mdp_vars, env_vars, create_vars, vi_vars, pi_values, pi_policy, pi_stable,
                   pi_improvement_ret, pi_init>>

\* lines 128-131, one state of _policy_evaluation's sweep
PIEvaluate ==
    /\ pi_pc = "evaluation_for"
    /\ pi_s < NStates
    /\ LET v == pi_values[pi_s]
           a == pi_policy[pi_s]
       IN  /\ pi_values' = [pi_values EXCEPT ![pi_s] = update_value(pi_values, pi_s, a)]
           /\ pi_delta' = PyMax(pi_delta, Abs(v - pi_values'[pi_s]))
    /\ pi_s' = pi_s + 1
    /\ UNCHANGED <<mdp_vars, env_vars, create_vars, vi_vars, pi_policy, pi_pc, pi_policy_stable, pi_stable,
                   pi_improvement_ret, pi_init>>

PIEvaluationSweepEnd ==
    /\ pi_pc = "evaluation_for"
    /\ pi_s = NStates
    /\ pi_pc' = "evaluation"
    /\ UNCHANGED <<mdp_vars, env_vars, create_vars, vi_vars, pi_values, pi_policy, pi_s, pi_delta,
                   pi_policy_stable, pi_stable, pi_improvement_ret, pi_init>>

\* ------------------------------------------------ the fit, as one call
\* lines 94-100 for one state
VIUpdateState(values, policy, s) ==
    LET q == [a \in Actions |-> update_value(values, s, a)]
    IN  [values |-> [values EXCEPT ![s] = NpMax(q)],
         policy |-> [policy EXCEPT ![s] = NpArgmax(q)]]

RECURSIVE VISweep(_, _, _, _)
\* lines 93-101 from state s on, delta so far
VISweep(values, policy, s, delta) ==
    IF s = NStates THEN [values |-> values, policy |-> policy, delta |-> delta]
    ELSE LET u == VIUpdateState(values, policy, s)
         IN  VISweep(u.values, u.policy, s + 1, PyMax(delta, Abs(values[s] - u.values[s])))

RECURSIVE VIFitFrom(_, _, _)
\* lines 91-101, `sweeps` sweeps done
VIFitFrom(values, policy, sweeps) ==
    LET r == VISweep(values, policy, 0, 0)
    IN  IF r.delta > Eps /\ sweeps + 1 < MaxSweeps
        THEN VIFitFrom(r.values, r.policy, sweeps + 1)
        ELSE r

\* ------------------------------------------------- the model: reset, step
\* the states step may draw after (s, a)
NextStates(s, a) ==
    IF transition_function_type \in {"S_DETERMINISTIC", "SA_DETERMINISTIC"}
    THEN {transition_function(s, a, None)}
    ELSE IF transition_function_type \in {"S_PROBABILISTIC", "SA_PROBABILISTIC"}
    THEN {next_s \in States : transition_function(s, a, None)[next_s] > 0}
    ELSE {next_s \in States : transition_function(s, a, next_s) > 0}

\* the rewards step may give for (s, a, next_s)
StepRewards(s, a, next_s) ==
    IF reward_function_type # "SASR"
    THEN {reward_function(s, a, next_s, None)}
    ELSE {all_rewards[k] : k \in {j \in RewardIdx :
                                    reward_function(s, a, next_s, all_rewards[j]) > 0}}

\* what step(a) may return with the model in state s
StepResults(s, a) ==
    UNION {{[next_state |-> next_s, reward |-> r,
             terminated |-> terminate_s_flags[next_s], truncated |-> FALSE] :
                r \in StepRewards(s, a, next_s)} : next_s \in NextStates(s, a)}

NoStep == [next_state |-> 0, reward |-> 0, terminated |-> FALSE, truncated |-> FALSE]

\* -------------------------------------------------------------- create
BreakOnTruncated(terminated, truncated) == truncated

\* lines 74 and 109: if terminated or truncated
Break(terminated, truncated) == terminated \/ truncated

PolicyOfFirstState(policy, s) == policy[0]

\* lines 69 and 99: policy[state]
PolicyAction(policy, s) == policy[s]

MinStepOfLength(step, min_step) == IF step + 1 < min_step THEN step + 1 ELSE min_step

\* lines 112-113
MinStep(step, min_step) == IF step < min_step THEN step ELSE min_step

\* lines 114-115
MaxStepSeen(step, max_seen) == IF step > max_seen THEN step ELSE max_seen

\* t before the first replay loop binds it
Unbound == -1

\* lines 47-64: the factory's policy is fitted, and the expert rollout
\* resets the model
CreateTrain ==
    /\ c_pc = "train"
    /\ LET r == VIFitFrom(vi_values, vi_policy, 0)
       IN  /\ vi_values' = r.values
           /\ vi_policy' = r.policy
    /\ target_return' = 0
    /\ current_state' = seeded_state
    /\ state' = seeded_state
    /\ range_next' = 0
    /\ c_pc' = "expert"
    /\ UNCHANGED <<mdp_vars, pi_vars, seeded_state, param_vars, action, player, t, replay,
                   step_result, episode_vars, data, data_stops, data_min_step, data_max_step,
                   metadata, vi_pc, vi_s, vi_delta, vi_v, vi_qvalues, vi_init, vi_start, vi_visited,
                   vi_deltas>>

\* lines 77-80, after the expert rollout
EndExpert ==
    /\ data_min_step' = max_step
    /\ data_max_step' = 0
    /\ data' = <<>>
    /\ data_stops' = <<>>
    /\ replay' = 0
    /\ c_pc' = "replays"

\* lines 68-69: the next round of the expert loop
ExpertChoose ==
    /\ c_pc = "expert"
    /\ IF range_next < max_step
       THEN /\ range_next' = range_next + 1
            /\ action' = PolicyAction(vi_policy, state)
            /\ c_pc' = "expert_step"
            /\ UNCHANGED <<data_min_step, data_max_step, data, data_stops, replay>>
       ELSE /\ EndExpert
            /\ UNCHANGED <<range_next, action>>
    /\ UNCHANGED <<mdp_vars, vi_vars, pi_vars, env_vars, param_vars, state, player, t,
                   step_result, target_return, episode_vars, metadata>>

\* lines 70-75
ExpertStep ==
    /\ c_pc = "expert_step"
    /\ \E r \in StepResults(current_state, action) :
        /\ step_result' = r
        /\ current_state' = r.next_state
        /\ state' = r.next_state
        /\ target_return' = target_return + r.reward
        /\ IF Break(r.terminated, r.truncated)
           THEN EndExpert
           ELSE /\ c_pc' = "expert"
                /\ UNCHANGED <<data_min_step, data_max_step, data, data_stops, replay>>
    /\ UNCHANGED <<mdp_vars, vi_vars, pi_vars, seeded_state, param_vars, action, player, t,
                   range_next, episode_vars, metadata>>

\* line 81 and lines 82-88, or lines 120-130 when the replays are over
Replay ==
    /\ c_pc = "replays"
    /\ IF replay < n_replay
       THEN /\ states' = <<>>
            /\ actions' = <<>>
            /\ ep_rewards' = <<>>
            /\ times' = <<>>
            /\ stops' = <<>>
            /\ current_state' = seeded_state
            /\ state' = seeded_state
            /\ range_next' = 0
            /\ c_pc' = "play"
            /\ UNCHANGED metadata
       ELSE /\ metadata' = [target_return |-> target_return,
                            data_min_step |-> data_min_step,
                            data_max_step |-> data_max_step,
                            n_replay |-> n_replay]
            /\ c_pc' = "done"
            /\ UNCHANGED <<episode_vars, current_state, state, range_next>>
    /\ UNCHANGED <<mdp_vars, vi_vars, pi_vars, seeded_state, param_vars, action, player, t, replay,
                   step_result, target_return, data, data_stops, data_min_step,
                   data_max_step>>

\* lines 93-99: the next t, and the action of the policy or of the sampler
PlayChoose ==
    /\ c_pc = "play"
    /\ IF range_next < max_step
       THEN /\ t' = range_next
            /\ range_next' = range_next + 1
            /\ \E u \in 0 .. (PlayUnits - 1) :
                IF u < random_play_p
                THEN /\ player' = "random"
                     /\ action' \in Actions
                ELSE /\ player' = "policy"
                     /\ action' = PolicyAction(vi_policy, state)
            /\ c_pc' = "play_step"
       ELSE /\ c_pc' = "episode_end"
            /\ UNCHANGED <<t, range_next, player, action>>
    /\ UNCHANGED <<mdp_vars, vi_vars, pi_vars, env_vars, param_vars, state, replay, step_result,
                   target_return, episode_vars, data, data_stops, data_min_step,
                   data_max_step, metadata>>

\* lines 100-110
PlayStep ==
    /\ c_pc = "play_step"
    /\ \E r \in StepResults(current_state, action) :
        /\ step_result' = r
        /\ current_state' = r.next_state
        /\ states' = Append(states, state)
        /\ actions' = Append(actions, action)
        /\ ep_rewards' = Append(ep_rewards, r.reward)
        /\ times' = Append(times, t)
        /\ stops' = Append(stops, r.terminated \/ r.truncated)
        /\ state' = r.next_state
        /\ c_pc' = IF Break(r.terminated, r.truncated) THEN "episode_end" ELSE "play"
    /\ UNCHANGED <<mdp_vars, vi_vars, pi_vars, seeded_state, param_vars, action, player, t,
                   range_next, replay, target_return, data, data_stops, data_min_step,
                   data_max_step, metadata>>

\* lines 112-118; line 112 reads t, which no loop has bound when max_step
\* is 0
EpisodeEnd ==
    /\ c_pc = "episode_end"
    /\ IF t = Unbound
       THEN /\ c_pc' = "NameError"
            /\ UNCHANGED <<data_min_step, data_max_step, data, data_stops, replay>>
       ELSE /\ data_min_step' = MinStep(t, data_min_step)
            /\ data_max_step' = MaxStepSeen(t, data_max_step)
            /\ data' = Append(data, <<states, actions, ep_rewards, times>>)
            /\ data_stops' = Append(data_stops, stops)
            /\ replay' = replay + 1
            /\ c_pc' = "replays"
    /\ UNCHANGED <<mdp_vars, vi_vars, pi_vars, env_vars, param_vars, state, action, player, t,
                   range_next, step_result, target_return, episode_vars, metadata>>

\* ------------------------------------------------------------ the runs
\* MDPFactory.__init__ for one pair of kinds and one random stream
InitMDP(transition_kinds, reward_kinds) ==
    /\ transition_function_type \in transition_kinds
    /\ reward_function_type \in reward_kinds
    /\ \E seed \in 0 .. (MaxSeed - 1) :
        /\ transitions = transition(transition_function_type, seed)
        /\ rewards = reward(reward_function_type, seed)
        /\ terminate_s_flags = terminate_s(seed)
        /\ seeded_state = reset(seed)

InitVI ==
    /\ vi_values = Zeros(NStates)
    /\ vi_policy = Zeros(NStates)
    /\ vi_pc = "idle"
    /\ vi_s = 0
    /\ vi_delta = 0
    /\ vi_v = 0
    /\ vi_qvalues = Zeros(NActions)
    /\ vi_init = NoCall
    /\ vi_start = Zeros(NStates)
    /\ vi_visited = <<>>
    /\ vi_deltas = <<>>

InitPI ==
    /\ pi_values = Zeros(NStates)
    /\ pi_policy = Zeros(NStates)
    /\ pi_pc = "idle"
    /\ pi_s = 0
    /\ pi_delta = 0
    /\ pi_policy_stable = "False"
    /\ pi_stable = TRUE
    /\ pi_improvement_ret = None
    /\ pi_init = NoCall

NoMetadata == [target_return |-> 0, data_min_step |-> 0, data_max_step |-> 0, n_replay |-> 0]

InitCreateLocals ==
    /\ current_state = 0
    /\ state = 0
    /\ action = 0
    /\ player = "policy"
    /\ t = Unbound
    /\ range_next = 0
    /\ replay = 0
    /\ step_result = NoStep
    /\ target_return = 0
    /\ states = <<>>
    /\ actions = <<>>
    /\ ep_rewards = <<>>
    /\ times = <<>>
    /\ stops = <<>>
    /\ data = <<>>
    /\ data_stops = <<>>
    /\ data_min_step = 0
    /\ data_max_step = 0
    /\ metadata = NoMetadata

\* the solvers alone: create is not called
Init ==
    /\ InitMDP(MDPTransitionType, MDPRewardType) /\ InitVI /\ InitPI /\ InitCreateLocals
    /\ n_replay = 0
    /\ max_step = 0
    /\ random_play_p = 0
    /\ c_pc = "off"

\* a call of create, with the kinds its parameters default to (lines 23-24),
\* as the sweep at the end of data.py calls it, recording at most
\* MaxRecorded steps in all
InitCreate ==
    /\ InitMDP({"SA_DETERMINISTIC"}, {"SA"}) /\ InitVI /\ InitPI /\ InitCreateLocals
    /\ n_replay \in 0 .. MaxReplay
    /\ max_step \in 0 .. MaxStep
    /\ n_replay * max_step <= MaxRecorded
    /\ random_play_p \in 0 .. PlayUnits
    /\ c_pc = "train"

\* both fits, each from the arrays its constructor made, one after the other
NextFit ==
    \/ VIFitEnter \/ VIWhile \/ VIEvaluate \/ VIUpdate \/ VISweepEnd
    \/ PIFitEnter \/ PIWhile \/ PIImprove \/ PIImprovementReturn
    \/ PIEvaluationWhile \/ PIEvaluate \/ PIEvaluationSweepEnd

Next == NextFit \/ VIInit \/ PIInit

Spec == Init /\ [][Next]_vars

FitSpec == Init /\ [][NextFit]_vars /\ WF_vars(NextFit)

NextCreate ==
    \/ CreateTrain \/ ExpertChoose \/ ExpertStep
    \/ Replay \/ PlayChoose \/ PlayStep \/ EpisodeEnd

CreateSpec == InitCreate /\ [][NextCreate]_vars

\* ---------------------------------------------------------- properties
\* MaxSweeps never stops a fit: every instance converges below it
VINeverCapped == Len(vi_deltas) < MaxSweeps

\* C1: PolicyIteration.fit leaves its loop as soon as a policy-improvement
\* pass has changed no state's action: once _policy_improvement has
\* returned True, no further improvement pass runs.
C1_FitExitsWhenStable == ~(pi_pc = "improvement" /\ pi_improvement_ret = "True")

\* the tolerance within which two converged value arrays agree
ValueTolerance == 2 * (Eps + 1)

ValuesAgree ==
    \A s \in States : Abs(vi_values[s] - pi_values[s]) <= ValueTolerance

\* C2: started from the constructor's arrays on the same instance, both
\* fits reach their final state, and there the value arrays agree state
\* by state within the tolerance.
C2_BothFitsEndAgreeing == <>(vi_pc = "done" /\ pi_pc = "done" /\ ValuesAgree)

\* The point where a loop that left on a stable improvement pass would stop:
\* the pass has changed nothing and its evaluation has converged.  The value
\* arrays need not agree there: from V = 0 every action ties, the first pass
\* changes nothing, and the values are those of the all-zero policy.  This
\* formula is violated under FitSpec.
StablePointAgrees ==
    pi_pc = "while" /\ pi_improvement_ret = "True" => ValuesAgree

\* the largest |before[s] - after[s]| over the states s < k
RECURSIVE MaxChange(_, _, _)
MaxChange(before, after, k) ==
    IF k = 0 THEN 0
    ELSE LET m == MaxChange(before, after, k - 1)
             d == Abs(before[k - 1] - after[k - 1])
         IN  IF d > m THEN d ELSE m

InSweep == vi_pc \in {"for", "update"}

\* C3: ValueIteration.fit runs at least one sweep, a sweep updates the
\* states 0, 1, ... in index order, each once, its delta is the largest
\* change of a value over the sweep, a new sweep begins only after a
\* sweep whose delta exceeded eps, and fit is done only at the end of a
\* whole sweep, the first whose delta is at most eps.
C3_SweepsUntilDeltaSmall ==
    /\ vi_visited = [i \in 1 .. Len(vi_visited) |-> i - 1]
    /\ vi_pc # "idle" /\ (vi_pc # "while" \/ vi_deltas # <<>>) => Len(vi_visited) = vi_s
    /\ InSweep => vi_delta = MaxChange(vi_start, vi_values, vi_s)
    /\ \A i \in 1 .. (Len(vi_deltas) - 1) : vi_deltas[i] > Eps
    /\ InSweep /\ vi_deltas # <<>> => vi_deltas[Len(vi_deltas)] > Eps
    /\ vi_pc \in {"while", "done"} /\ vi_deltas # <<>> =>
            /\ vi_s = NStates
            /\ vi_deltas[Len(vi_deltas)] = vi_delta
            /\ vi_delta = MaxChange(vi_start, vi_values, NStates)
    /\ vi_pc = "done" => vi_deltas # <<>> /\ vi_deltas[Len(vi_deltas)] <= Eps

\* fit has returned after more than one sweep
C3_Witness == vi_pc = "done" /\ Len(vi_deltas) >= 3

\* the state the fit has just updated, and the value array as it was then
JustUpdated == vi_pc \in {"for", "while", "done"} /\ vi_s >= 1 /\ Len(vi_visited) = vi_s

QBefore(a) == update_value([vi_values EXCEPT ![vi_s - 1] = vi_v], vi_s - 1, a)

\* C4: an update of state s leaves in V(s) the largest Q(s,a) over the
\* actions, computed from the value array as it was at the update, and in
\* policy(s) the lowest action attaining it; with an S_DETERMINISTIC
\* kernel and S rewards that action is 0.
C4_UpdateTakesMaxAndFirstArgmax ==
    JustUpdated =>
        LET s == vi_s - 1
        IN  /\ \A a \in Actions : QBefore(a) <= vi_values[s]
            /\ vi_policy[s] \in Actions
            /\ QBefore(vi_policy[s]) = vi_values[s]
            /\ \A a \in Actions : a < vi_policy[s] => QBefore(a) < vi_values[s]
            /\ (transition_function_type = "S_DETERMINISTIC" /\ reward_function_type = "S")
                    => vi_policy[s] = 0

\* an update that changed V(s), two actions tying for the maximum under a
\* kernel that depends on the action
C4_Witness ==
    /\ JustUpdated
    /\ transition_function_type \in {"SA_DETERMINISTIC", "SA_PROBABILISTIC", "SAS"}
    /\ vi_values[vi_s - 1] # vi_v
    /\ \E a, b \in Actions :
        /\ a < b
        /\ QBefore(a) = vi_values[vi_s - 1]
        /\ QBefore(b) = vi_values[vi_s - 1]

\* P(next_s | s, a) of the kernel, in PUnits
KernelP(s, a, next_s) ==
    CASE transition_function_type = "S_DETERMINISTIC" ->
            IF transitions[s] = next_s THEN PUnits ELSE 0
      [] transition_function_type = "S_PROBABILISTIC" -> transitions[s][next_s]
      [] transition_function_type = "SA_DETERMINISTIC" ->
            IF transitions[<<s, a>>] = next_s THEN PUnits ELSE 0
      [] transition_function_type = "SA_PROBABILISTIC" -> transitions[<<s, a>>][next_s]
      [] transition_function_type = "SAS" -> transitions[<<s, a, next_s>>]

\* P(all_rewards[i] | s, a, next_s) of the reward table, in RUnits
TableP(s, a, next_s, i) ==
    CASE reward_function_type = "S" -> IF rewards[s] = all_rewards[i] THEN RUnits ELSE 0
      [] reward_function_type = "SA" ->
            IF rewards[<<s, a>>] = all_rewards[i] THEN RUnits ELSE 0
      [] reward_function_type = "SAS" ->
            IF rewards[<<s, a, next_s>>] = all_rewards[i] THEN RUnits ELSE 0
      [] reward_function_type = "SASR" -> rewards[<<s, a, next_s, i>>]

\* sum over next_s of P(next_s|s,a) * sum over r of P(r|s,a,next_s) * (r + gamma V(next_s))
BellmanQ(values, s, a) ==
    RoundToGrid(
        SumUpTo([next_s \in States |->
            KernelP(s, a, next_s)
              * SumUpTo([i \in RewardIdx |->
                    TableP(s, a, next_s, i) * Discounted(values, all_rewards[i], next_s)],
                    NRewards)],
            NStates))

\* C5: for every transition kind and reward kind, _update_value(s, a)
\* returns the Bellman sum Q(s,a) over the kernel's successors and the
\* reward table's rewards.
C5_UpdateValueIsBellmanQ ==
    vi_pc = "update" => \A a \in Actions : vi_qvalues[a] = BellmanQ(vi_values, vi_s, a)

\* the same, the SAS reward table left out
UpdateValueIsBellmanQUnlessSAS ==
    reward_function_type # "SAS" => C5_UpdateValueIsBellmanQ

\* C6: reward_function follows the rule of its table's kind: the entry at
\* s, at (s,a), at (s,a,next_s), and for SASR the probability of r at
\* (s,a,next_s).
C6_RewardFunctionFollowsTable ==
    vi_pc = "update" =>
        \A a \in Actions, next_s \in States :
            /\ reward_function_type = "S" =>
                    reward_function(vi_s, a, next_s, None) = rewards[vi_s]
            /\ reward_function_type = "SA" =>
                    reward_function(vi_s, a, next_s, None) = rewards[<<vi_s, a>>]
            /\ reward_function_type = "SAS" =>
                    reward_function(vi_s, a, next_s, None) = rewards[<<vi_s, a, next_s>>]
            /\ reward_function_type = "SASR" =>
                    \A i \in RewardIdx :
                        reward_function(vi_s, a, next_s, all_rewards[i])
                            = rewards[<<vi_s, a, next_s, i>>]

RewardFunctionFollowsTableUnlessSAS ==
    reward_function_type # "SAS" => C6_RewardFunctionFollowsTable

IsPolicyArray(policy) ==
    /\ DOMAIN policy = States
    /\ \A s \in States : policy[s] \in Actions

IsValueArray(values) == DOMAIN values = States /\ \A s \in States : values[s] \in Int

BadValues(values) == values # NoArray /\ Cardinality(DOMAIN values) # NStates

BadPolicy(policy) ==
    /\ policy # NoArray
    /\ \/ Cardinality(DOMAIN policy) # NStates
       \/ \E i \in DOMAIN policy : policy[i] < 0 \/ policy[i] >= NActions

InitRejects(log) ==
    /\ log.raised <=> (BadValues(log.values) \/ BadPolicy(log.policy))
    /\ BadValues(log.values) => log.values_kept
    /\ BadPolicy(log.policy) => log.policy_kept

\* C9: through init and both fits the policy array holds n_states action
\* indices and the value array n_states values; init fails on a policy of
\* the wrong length or with an entry out of range and on a value array of
\* the wrong length, and leaves the array it rejected as it was.
C9_ArraysStayWellFormed ==
    /\ IsPolicyArray(vi_policy) /\ IsValueArray(vi_values)
    /\ IsPolicyArray(pi_policy) /\ IsValueArray(pi_values)
    /\ InitRejects(vi_init) /\ InitRejects(pi_init)

\* init has rejected a policy of the right length for an entry out of
\* range, after taking the value array of the same call
C9_Witness ==
    /\ pi_init.raised
    /\ pi_init.policy # NoArray
    /\ Cardinality(DOMAIN pi_init.policy) = NStates
    /\ ~pi_init.values_kept
    /\ vi_policy # Zeros(NStates)

\* from the constructor's arrays, the fit as one call computes what the fit
\* computes step by step
FitCallAgrees ==
    vi_pc = "done" =>
        LET r == VIFitFrom(Zeros(NStates), Zeros(NStates), 0)
        IN  r.values = vi_values /\ r.policy = vi_policy

\* the episodes on record, and the one being played
Episodes ==
    {<<data[k], data_stops[k]>> : k \in 1 .. Len(data)}
    \cup (IF c_pc \in {"play", "play_step", "episode_end"}
          THEN {<<(<<states, actions, ep_rewards, times>>), stops>>}
          ELSE {})

\* C7: a replay episode has at most max_step steps; its four arrays have
\* one length and its times count 0, 1, ...; no step before its last one
\* has returned terminated or truncated, and an episode on record that is
\* shorter than max_step ends with a step that has.
C7_EpisodeEndsAtFirstTermination ==
    /\ \A e \in Episodes :
        LET n == Len(e[1][1])
        IN  /\ n <= max_step
            /\ Len(e[1][2]) = n /\ Len(e[1][3]) = n /\ Len(e[1][4]) = n /\ Len(e[2]) = n
            /\ e[1][4] = [k \in 1 .. n |-> k - 1]
            /\ \A k \in 1 .. (n - 1) : ~e[2][k]
    /\ \A k \in 1 .. Len(data) :
        LET n == Len(data[k][1])
        IN  n >= 1 /\ (n < max_step => data_stops[k][n])
    /\ c_pc = "play" => \A k \in 1 .. Len(stops) : ~stops[k]

\* an episode on record cut short by a terminating step that was not its
\* first step
C7_Witness ==
    \E k \in 1 .. Len(data) :
        /\ Len(data[k][1]) >= 2
        /\ Len(data[k][1]) < max_step
        /\ data_stops[k][Len(data[k][1])]

\* the recorded states follow one another by the kernel under the
\* recorded actions, from the state reset gave, up to state `last`
Chained(ep_states, ep_actions, last) ==
    /\ ep_states # <<>> => ep_states[1] = seeded_state
    /\ \A k \in 1 .. Len(ep_states) :
        (IF k < Len(ep_states) THEN ep_states[k + 1] ELSE last)
            \in NextStates(ep_states[k], ep_actions[k])

\* C8: the expert rollout, and a replay with random_play_p = 0, take at
\* every step the action policy[state] with state the model's current
\* state, never the sampler's; and every recorded tuple holds the state
\* its action was taken from.
C8_PolicyActionOfCurrentState ==
    /\ c_pc \in {"expert", "expert_step", "play", "play_step"} => state = current_state
    /\ c_pc = "expert_step" => action = vi_policy[current_state]
    /\ c_pc \in {"play", "play_step", "episode_end"} => Chained(states, actions, state)
    /\ \A k \in 1 .. Len(data) :
            \E last \in States : Chained(data[k][1], data[k][2], last)
    /\ random_play_p = 0 =>
        /\ player = "policy"
        /\ c_pc = "play_step" => action = vi_policy[current_state]
        /\ \A k \in 1 .. Len(states) : actions[k] = vi_policy[states[k]]
        /\ \A k \in 1 .. Len(data) :
                \A j \in 1 .. Len(data[k][1]) : data[k][2][j] = vi_policy[data[k][1][j]]

\* a replay without exploration has recorded two steps from two states,
\* the second with an action other than policy[0]
C8_Witness ==
    /\ random_play_p = 0
    /\ \E k \in 1 .. Len(data) :
        /\ Len(data[k][1]) >= 2
        /\ data[k][1][2] # data[k][1][1]
        /\ data[k][2][2] # vi_policy[0]

RECURSIVE MinLast(_, _)
\* the least last-step index (length - 1) of the first k episodes
MinLast(episodes, k) ==
    IF k = 1 THEN Len(episodes[1][1]) - 1
    ELSE LET m == MinLast(episodes, k - 1)
             x == Len(episodes[k][1]) - 1
         IN  IF x < m THEN x ELSE m

RECURSIVE MaxLast(_, _)
MaxLast(episodes, k) ==
    IF k = 1 THEN Len(episodes[1][1]) - 1
    ELSE LET m == MaxLast(episodes, k - 1)
             x == Len(episodes[k][1]) - 1
         IN  IF x > m THEN x ELSE m

\* C10: with n_replay >= 1 and max_step >= 1 the metadata's data_min_step
\* and data_max_step are the least and the greatest index of an episode's
\* last step over the recorded episodes, within 0 .. max_step - 1; with
\* n_replay = 0 they are max_step and 0.
C10_MinMaxStepAreLastIndices ==
    /\ c_pc = "done" /\ n_replay >= 1 /\ max_step >= 1 =>
        /\ Len(data) = n_replay
        /\ metadata.data_min_step = MinLast(data, Len(data))
        /\ metadata.data_max_step = MaxLast(data, Len(data))
        /\ 0 <= metadata.data_min_step
        /\ metadata.data_min_step <= metadata.data_max_step
        /\ metadata.data_max_step <= max_step - 1
    /\ c_pc = "done" /\ n_replay = 0 =>
        /\ metadata.data_min_step = max_step
        /\ metadata.data_max_step = 0

\* create has ended with episodes of different lengths on record
C10_Witness ==
    /\ c_pc = "done"
    /\ n_replay >= 2
    /\ metadata.data_min_step < metadata.data_max_step
====
